---- MODULE Spec2Model ----
(***************************************************************************)
(* Sound-asset management and preview playback of GrowBonsai-TUI.          *)
(*                                                                         *)
(* State: the four asset directories (file name -> content), the persisted *)
(* role bindings, the screen on top of the stack (the settings widget, the *)
(* EditSound modal or the AddSoundTree modal) with the EditSound fields,   *)
(* the mixer's active previews, the notification or exception of the last  *)
(* handler and, when that handler ran for a button of EditSound's list,    *)
(* the kind of the button.                                                 *)
(*                                                                         *)
(* A file name is the string stem \o suffix, as in the source.             *)
(***************************************************************************)
EXTENDS Integers, Sequences, FiniteSets, TLC

VARIABLES fs, config, screen, sound_type, path_to_sounds, sounds_names,
          playing, notice, pressed

vars == <<fs, config, screen, sound_type, path_to_sounds, sounds_names,
          playing, notice, pressed>>

----------------------------------------------------------------------------
(* Bounds *)

\* most files a user directory holds in the model
MaxUserFiles == 2

----------------------------------------------------------------------------
(* Names, directories, roles *)

Stems == {"bell", "forest", "loop", "gong"}

Exts == {".wav", ".mp3"}

\* suffixes pygame supports
AllowedSuffixes == {".wav", ".mp3", ".ogg", ".flac", ".opus"}

FileNames == {s \o e : s \in Stems, e \in Exts}

DirIds == {"sounds", "ambiences", "user_sounds", "user_ambiences"}

Roles == {"alarm", "signal", "ambient"}

BLANK == "Select.BLANK"

\* the part of each file name before the dot, and the rest
SplitTable ==
    [n \in FileNames |->
        CHOOSE p \in Stems \X Exts : p[1] \o p[2] = n]

\* sound.split('.')[0]
StemOf(name) == SplitTable[name][1]

\* Path.suffix, f'.{sound.split('.')[1]}'
SuffixOf(name) == SplitTable[name][2]

\* files the user can pick in the MusicDirectoryTree; data is the content
SourceFiles ==
    { [folder |-> "Music",     stem |-> "loop", suffix |-> ".wav", data |-> "A"],
      [folder |-> "Downloads", stem |-> "loop", suffix |-> ".wav", data |-> "B"],
      [folder |-> "Music",     stem |-> "bell", suffix |-> ".wav", data |-> "D"] }

\* names the user types into a sound's Input
TypedNames == {"bell", "loop", "gong"}

\* base name of the picked file
soundify(path) == path.stem

\* names user assets may never take: the built-in defaults
forbiden_sound_names == {"bell", "forest"}

\* the directories as setup leaves them: built-ins shipped, user ones empty
InitialFs ==
    [d \in DirIds |->
        CASE d = "sounds"    -> [n \in {"bell.wav"}   |-> "app"]
          [] d = "ambiences" -> [n \in {"forest.mp3"} |-> "app"]
          [] OTHER           -> [n \in {} |-> "app"]]

\* the default bindings installed at setup
InitialConfig ==
    [r \in Roles |->
        IF r = "ambient" THEN [name |-> "forest.mp3", path |-> "ambiences"]
                         ELSE [name |-> "bell.wav",   path |-> "sounds"]]

----------------------------------------------------------------------------
(* Asset store *)

\* path.glob('*'): the names in a directory
glob(d) == DOMAIN fs[d]

\* return_sounds_list / sounds_list: audio files of the given directories
return_sounds_list(paths) ==
    {n \in UNION {glob(d) : d \in paths} : SuffixOf(n) \in AllowedSuffixes}

\* is a file of that exact name in the user directory of the category
is_imported_sound(name, type) ==
    IF type = "ambient" THEN name \in glob("user_ambiences")
                        ELSE name \in glob("user_sounds")

\* the dicts {stem: suffix} the comprehension of EditSound.__init__ can
\* build from a directory: a stem with two suffixes keeps the one listed last
NamesDicts(path) ==
    LET listing == return_sounds_list({path})
        stems   == {StemOf(n) : n \in listing}
    IN  {f \in [stems -> Exts] : \A s \in stems : s \o f[s] \in listing}

----------------------------------------------------------------------------
(* Config store *)

get_used_sound(role) == config[role]

update_used_sound(cfg, role, name, path) ==
    [cfg EXCEPT ![role] = [name |-> name, path |-> path]]

\* the roles that draw from the pool an EditSound dialog edits
RolesOf(type) == IF type = "ambient" THEN {"ambient"} ELSE {"alarm", "signal"}

\* a mutant of change_sound_name_if_in_config: every role of the pool gets
\* the new name, whatever it was bound to
change_sound_name_always(cfg, type, old_name, new_name) ==
    [r \in Roles |->
        IF r \in RolesOf(type)
        THEN [cfg[r] EXCEPT !.name = new_name]
        ELSE cfg[r]]

\* rename the binding of every role of the pool that is bound to old_name
change_sound_name_if_in_config(cfg, type, old_name, new_name) ==
    [r \in Roles |->
        IF r \in RolesOf(type) /\ cfg[r].name = old_name
        THEN [cfg[r] EXCEPT !.name = new_name]
        ELSE cfg[r]]

----------------------------------------------------------------------------
(* Mixer *)

\* a mutant of play_any_sound: the active preview is not stopped first
play_any_sound_no_stop(path, name) ==
    playing \cup {[path |-> path, name |-> name]}

\* stops the active preview, then starts the new one
play_any_sound(path, name) == {[path |-> path, name |-> name]}

stop_all_sounds == {}

----------------------------------------------------------------------------
Init ==
    /\ fs = InitialFs
    /\ config = InitialConfig
    /\ screen = "settings"
    /\ sound_type = "alarm"
    /\ path_to_sounds = "user_sounds"
    /\ sounds_names = [s \in {} |-> ".wav"]
    /\ playing = {}
    /\ notice = ""
    /\ pressed = ""

----------------------------------------------------------------------------
(* SoundSettings widget (screen = "settings") *)

\* the values a role's Select offers
SelectValues(role) ==
    IF role = "ambient" THEN return_sounds_list({"ambiences", "user_ambiences"})
                        ELSE return_sounds_list({"sounds", "user_sounds"})

\* the directory select_changed stores with the selected name
SelectedPath(role, value) ==
    IF role = "ambient"
    THEN IF value \in glob("ambiences") THEN "ambiences" ELSE "user_sounds"
    ELSE IF value \in glob("sounds") THEN "sounds" ELSE "user_sounds"

\* set_alarm, set_signal, set_ambient: the widget's copies of the bound
\* names, taken from the config when the widget is built or rebuilt and set
\* with the config by select_changed, so equal to it while the widget is on top
set_used(role) == get_used_sound(role).name

select_changed(role, value) ==
    /\ screen = "settings"
    /\ IF \/ value = BLANK
          \/ role \in {set_used("alarm"), set_used("signal"), set_used("ambient")}
       THEN UNCHANGED config
       ELSE config' = update_used_sound(config, role, value,
                                       SelectedPath(role, value))
    /\ notice' = ""
    /\ pressed' = ""
    /\ UNCHANGED <<fs, screen, sound_type, path_to_sounds, sounds_names, playing>>

\* the values of the test-sound Select
TestValues ==
    return_sounds_list({"sounds", "user_sounds"})
        \cup return_sounds_list({"ambiences", "user_ambiences"})

\* the directory listen_to_sound plays the name from; "" when in none
ListenPath(name_with_ext) ==
    IF name_with_ext \in return_sounds_list({"user_sounds"}) THEN "user_sounds"
    ELSE IF name_with_ext \in return_sounds_list({"user_ambiences"})
         THEN "user_ambiences"
    ELSE IF name_with_ext \in return_sounds_list({"sounds"}) THEN "sounds"
    ELSE IF name_with_ext \in return_sounds_list({"ambiences"}) THEN "ambiences"
    ELSE ""

listen_to_sound(value) ==
    /\ screen = "settings"
    /\ IF value = BLANK
       THEN UNCHANGED playing /\ notice' = ""
       ELSE IF ListenPath(value) = ""
            THEN UNCHANGED playing /\ notice' = "FileNotFoundError"
            ELSE /\ playing' = play_any_sound(ListenPath(value), value)
                 /\ notice' = ""
    /\ pressed' = ""
    /\ UNCHANGED <<fs, config, screen, sound_type, path_to_sounds,
                   sounds_names>>

stop_playing_sound ==
    /\ screen = "settings"
    /\ playing' = stop_all_sounds
    /\ notice' = ""
    /\ pressed' = ""
    /\ UNCHANGED <<fs, config, screen, sound_type, path_to_sounds,
                   sounds_names>>

EditButtons == {"edit-alarm", "edit-signal", "edit-ambient"}

\* the pool the pressed edit button opens the dialog for
EditType(button) == IF button = "edit-ambient" THEN "ambient" ELSE "alarm"

\* a mutant of EditPath: the dialog is opened on the built-in directories
EditPath_builtin(button) ==
    IF button = "edit-ambient" THEN "ambiences" ELSE "sounds"

\* the directory the pressed edit button opens the dialog on
EditPath(button) ==
    IF button = "edit-ambient" THEN "user_ambiences" ELSE "user_sounds"

\* open EditSound(sound_type, path_to_sounds)
on_button_pressed(button) ==
    /\ screen = "settings"
    /\ sound_type' = EditType(button)
    /\ path_to_sounds' = EditPath(button)
    /\ sounds_names' \in NamesDicts(EditPath(button))
    /\ screen' = "edit"
    /\ notice' = ""
    /\ pressed' = ""
    /\ UNCHANGED <<fs, config, playing>>

----------------------------------------------------------------------------
(* EditSound modal (screen = "edit") *)

IdSuffixes == {"_rename", "_remove", "_input", "_coll"}

\* each widget id of the list with the part before its last underscore
IdTable ==
    [i \in {s \o x : s \in Stems, x \in IdSuffixes} |->
        CHOOSE s \in Stems : \E x \in IdSuffixes : s \o x = i]

remove_id_suffix(string) == IdTable[string]

\* a directory after old_file_path.rename(new_file_path)
rename_file(dir, old_name, new_name) ==
    [n \in (DOMAIN dir \ {old_name}) \cup {new_name} |->
        IF n = new_name THEN dir[old_name] ELSE dir[n]]

\* the Rename button's disabled flag for the typed name
check_sound_name(value) == value \in DOMAIN sounds_names

\* the dict after del sounds_names[sound_name]; sounds_names[new_name] = extension
RenamedDict(names, sound_name, new_name, extension) ==
    [s \in (DOMAIN names \ {sound_name}) \cup {new_name} |->
        IF s = new_name THEN extension ELSE names[s]]

\* a mutant of ConfigAfterRename: the config is not told of the rename
ConfigAfterRename_skipped(old_name, new_name_with_extension) == config

\* the config after the call that follows rename_file
ConfigAfterRename(old_name, new_name_with_extension) ==
    change_sound_name_if_in_config(config, sound_type, old_name,
                                   new_name_with_extension)

\* a mutant of change_sound_name: the error of a missing old file is
\* reported, and the dict and the config are updated all the same
change_sound_name_partial(button_id, new_name) ==
    LET sound_name == remove_id_suffix(button_id)
        extension  == sounds_names[sound_name]
        old_name   == sound_name \o extension
        new_name_with_extension == new_name \o extension
        dir        == fs[path_to_sounds]
    IN  IF old_name \notin DOMAIN dir
        THEN /\ notice' = "FileNotFoundError"
             /\ sounds_names' =
                  RenamedDict(sounds_names, sound_name, new_name, extension)
             /\ config' = ConfigAfterRename(old_name, new_name_with_extension)
             /\ UNCHANGED fs
        ELSE /\ fs' = [fs EXCEPT ![path_to_sounds] =
                         rename_file(dir, old_name, new_name_with_extension)]
             /\ sounds_names' =
                  RenamedDict(sounds_names, sound_name, new_name, extension)
             /\ config' = ConfigAfterRename(old_name, new_name_with_extension)
             /\ notice' = ""

\* rename_file raises FileNotFoundError when the old file is gone, before
\* the dict and the config are touched
change_sound_name(button_id, new_name) ==
    LET sound_name == remove_id_suffix(button_id)
        extension  == sounds_names[sound_name]
        old_name   == sound_name \o extension
        new_name_with_extension == new_name \o extension
        dir        == fs[path_to_sounds]
    IN  IF old_name \notin DOMAIN dir
        THEN /\ notice' = "FileNotFoundError"
             /\ UNCHANGED <<fs, sounds_names, config>>
        ELSE \/ /\ fs' = [fs EXCEPT ![path_to_sounds] =
                            rename_file(dir, old_name, new_name_with_extension)]
                /\ sounds_names' =
                     RenamedDict(sounds_names, sound_name, new_name, extension)
                /\ config' = ConfigAfterRename(old_name, new_name_with_extension)
                /\ notice' = ""
             \/ \* Path.rename replaces an existing target on POSIX (above)
                \* and raises FileExistsError on Windows
                /\ new_name_with_extension \in DOMAIN dir
                /\ new_name_with_extension # old_name
                /\ notice' = "FileExistsError"
                /\ UNCHANGED <<fs, sounds_names, config>>

\* the body of remove_sound is its docstring
remove_sound == TRUE

\* Button.Pressed of '<name>_rename', enabled by check_sound_name
rename_pressed(sound_name, value) ==
    /\ screen = "edit"
    /\ sound_name \in DOMAIN sounds_names
    /\ ~check_sound_name(value)
    /\ change_sound_name(sound_name \o "_rename", value)
    /\ pressed' = "rename"
    /\ remove_sound
    /\ UNCHANGED <<screen, sound_type, path_to_sounds, playing>>

\* Button.Pressed of '<name>_remove': both handlers of Button.Pressed run
remove_pressed(sound_name, value) ==
    /\ screen = "edit"
    /\ sound_name \in DOMAIN sounds_names
    /\ change_sound_name(sound_name \o "_remove", value)
    /\ pressed' = "remove"
    /\ remove_sound
    /\ UNCHANGED <<screen, sound_type, path_to_sounds, playing>>

\* the Add button: push AddSoundTree(sound_type)
add_sound ==
    /\ screen = "edit"
    /\ screen' = "add"
    /\ notice' = ""
    /\ pressed' = ""
    /\ UNCHANGED <<fs, config, sound_type, path_to_sounds,
                   sounds_names, playing>>

\* EditSound.action_close_popup: dismiss; the callback rebuilds the widget
edit_close_popup ==
    /\ screen = "edit"
    /\ screen' = "settings"
    /\ notice' = ""
    /\ pressed' = ""
    /\ UNCHANGED <<fs, config, sound_type, path_to_sounds, sounds_names, playing>>

----------------------------------------------------------------------------
(* AddSoundTree modal (screen = "add") *)

\* the user directory of the dialog's pool
ImportPath(type) == IF type = "ambient" THEN "user_ambiences" ELSE "user_sounds"

\* a directory after shutil.copy(src, dir / name)
copy(dir, name, data) ==
    [n \in DOMAIN dir \cup {name} |-> IF n = name THEN data ELSE dir[n]]

\* a mutant of ImportOutcome: the reserved-name check is missing
ImportOutcome_no_reserved_check(path) ==
    IF is_imported_sound(soundify(path) \o path.suffix, sound_type)
    THEN "duplicate" ELSE "copy"

\* a mutant of ImportOutcome: the already-imported check is missing
ImportOutcome_no_duplicate_check(path) ==
    IF soundify(path) \in forbiden_sound_names THEN "reserved" ELSE "copy"

\* which of its three exits file_selected takes
ImportOutcome(path) ==
    IF soundify(path) \in forbiden_sound_names THEN "reserved"
    ELSE IF is_imported_sound(soundify(path) \o path.suffix, sound_type)
         THEN "duplicate"
    ELSE "copy"

file_selected(path) ==
    LET soundified_name == soundify(path) \o path.suffix
        target == ImportPath(sound_type)
    IN  /\ screen = "add"
        /\ CASE ImportOutcome(path) = "reserved" ->
                  /\ notice' = "Sound name reserved for app buildin"
                  /\ UNCHANGED fs
             [] ImportOutcome(path) = "duplicate" ->
                  /\ notice' = "Sound already imported"
                  /\ UNCHANGED fs
             [] OTHER ->
                  /\ Cardinality(DOMAIN fs[target] \cup {soundified_name})
                        <= MaxUserFiles
                  /\ fs' = [fs EXCEPT ![target] =
                              copy(fs[target], soundified_name, path.data)]
                  /\ notice' = "Imported"
        /\ pressed' = ""
        /\ UNCHANGED <<config, screen, sound_type, path_to_sounds,
                       sounds_names, playing>>

\* AddSoundTree.action_close_popup: back to EditSound, its list rebuilt
add_close_popup ==
    /\ screen = "add"
    /\ screen' = "edit"
    /\ sounds_names' \in NamesDicts(path_to_sounds)
    /\ notice' = ""
    /\ pressed' = ""
    /\ UNCHANGED <<fs, config, sound_type, path_to_sounds, playing>>

----------------------------------------------------------------------------
(* Environment *)

\* the directories the user's own files are in
UserDirs == {"user_sounds", "user_ambiences"}

\* a directory without the file
unlink(dir, name) == [n \in DOMAIN dir \ {name} |-> dir[n]]

\* a file of a user directory is removed from outside the program, at any
\* time: no handler runs, the dialogs and the config keep what they hold
external_removal(d, name) ==
    /\ name \in glob(d)
    /\ fs' = [fs EXCEPT ![d] = unlink(fs[d], name)]
    /\ notice' = ""
    /\ pressed' = ""
    /\ UNCHANGED <<config, screen, sound_type, path_to_sounds,
                   sounds_names, playing>>

----------------------------------------------------------------------------
\* the asset-management handlers
NextAssets ==
    \/ \E r \in Roles : \E v \in SelectValues(r) \cup {BLANK} : select_changed(r, v)
    \/ \E b \in EditButtons : on_button_pressed(b)
    \/ \E s \in Stems : \E v \in TypedNames : rename_pressed(s, v)
    \/ \E s \in Stems : \E v \in TypedNames : remove_pressed(s, v)
    \/ add_sound
    \/ edit_close_popup
    \/ \E p \in SourceFiles : file_selected(p)
    \/ add_close_popup

\* the preview handlers, with the handlers that change what can be previewed
NextPreview ==
    \/ \E v \in TestValues \cup {BLANK} : listen_to_sound(v)
    \/ stop_playing_sound
    \/ \E b \in EditButtons : on_button_pressed(b)
    \/ \E s \in Stems : \E v \in TypedNames : rename_pressed(s, v)
    \/ add_sound
    \/ edit_close_popup
    \/ \E p \in SourceFiles : file_selected(p)
    \/ add_close_popup

Next == NextAssets \/ NextPreview

\* the whole program: every handler. The two specifications below each
\* leave out handlers whose state the others neither read nor write.
Spec == Init /\ [][Next]_vars

\* bindings, files and dialogs; the mixer, which none of these handlers
\* reads or writes, stays silent
SpecAssets == Init /\ [][NextAssets]_vars

\* the files picked for import where the race is looked at: one folder, so
\* one content for each name
RaceSources == {p \in SourceFiles : p.folder = "Music"}

\* the asset-management handlers, with files of the user directories
\* removed from outside between any two of them
NextRace ==
    \/ \E r \in Roles : \E v \in SelectValues(r) \cup {BLANK} : select_changed(r, v)
    \/ \E b \in EditButtons : on_button_pressed(b)
    \/ \E s \in Stems : \E v \in TypedNames : rename_pressed(s, v)
    \/ \E s \in Stems : \E v \in TypedNames : remove_pressed(s, v)
    \/ add_sound
    \/ edit_close_popup
    \/ \E p \in RaceSources : file_selected(p)
    \/ add_close_popup
    \/ \E d \in UserDirs : \E n \in FileNames : external_removal(d, n)

SpecRace == Init /\ [][NextRace]_vars

\* files, dialogs and the mixer; the bindings, which the preview never
\* reads, change by rename only
SpecPreview == Init /\ [][NextPreview]_vars

----------------------------------------------------------------------------
(* Properties *)

\* the built-in and the user directory of a pool
PoolDirs(pool) ==
    IF pool = "ambient" THEN {"ambiences", "user_ambiences"}
                        ELSE {"sounds", "user_sounds"}

\* the assets of a pool's merged listing, each with the directory it is in
PoolAssets(pool) ==
    {<<d, n>> : d \in PoolDirs(pool), n \in FileNames} \cap
    {a \in DirIds \X FileNames : a[2] \in return_sounds_list({a[1]})}

\* the old file name of the sound a button of EditSound belongs to
OldName(s) == s \o sounds_names[s]

\* the new file name a rename of sound s to the typed name v gives
NewName(s, v) == v \o sounds_names[s]

\* a Button.Pressed of EditSound that ran change_sound_name to its end
Renamed(s, v) ==
    /\ pressed' # ""
    /\ notice' = ""
    /\ rename_pressed(s, v) \/ remove_pressed(s, v)

\* C1: in each pool (sound, ambient), no two assets of the merged built-in
\* and user listing share a base name, whatever was imported and renamed.
C1_UniqueBaseNames ==
    \A pool \in {"sound", "ambient"} :
        \A a, b \in PoolAssets(pool) :
            a # b => StemOf(a[2]) # StemOf(b[2])

\* C2: every role's binding refers to a file that exists: its path is the
\* directory that holds the file called its name. Stated for the ambient
\* role, whose binding only select_changed sets to a user asset.
C2_AmbientBindingRefersToFile ==
    config["ambient"].name \in glob(config["ambient"].path)

C4_RemoveDeletesFile ==
    [][\A s \in Stems : \A v \in TypedNames :
          remove_pressed(s, v) =>
              /\ DOMAIN fs'[path_to_sounds] =
                    DOMAIN fs[path_to_sounds] \ {OldName(s)}
              /\ \A r \in Roles : config'[r].path = path_to_sounds
                                    => config'[r].name # OldName(s)]_vars

\* C5: importing a file whose base name is reserved fails with the
\* reserved-name error and leaves every directory as it was, in either pool.
C5_ReservedImportRejected ==
    [][\A p \in SourceFiles :
          file_selected(p) /\ soundify(p) \in forbiden_sound_names =>
              /\ notice' = "Sound name reserved for app buildin"
              /\ fs' = fs]_vars

\* C5 witness: the import of a reserved name into the ambient pool was
\* refused while that pool's user directory already held an import.
C5_Witness ==
    /\ screen = "add"
    /\ sound_type = "ambient"
    /\ notice = "Sound name reserved for app buildin"
    /\ glob("user_ambiences") # {}

\* C6: renaming a user asset to a reserved base name fails: the directories
\* and the bindings stay as they were.
C6_ReservedRenameRejected ==
    [][\A s \in Stems : \A v \in TypedNames \cap forbiden_sound_names :
          rename_pressed(s, v) => fs' = fs /\ config' = config]_vars

\* C7: importing a file whose name is already in the user directory of the
\* chosen pool is rejected: nothing is copied, the file that is there keeps
\* its content, directories and config are unchanged; the rejection is the
\* already-imported warning unless the reserved-name check, which comes
\* first, has refused the name.
C7_DuplicateImportRejected ==
    [][\A p \in SourceFiles :
          /\ file_selected(p)
          /\ (soundify(p) \o p.suffix) \in
                glob(IF sound_type = "ambient" THEN "user_ambiences"
                                               ELSE "user_sounds")
          => /\ fs' = fs
             /\ config' = config
             /\ notice' = IF soundify(p) \in forbiden_sound_names
                          THEN "Sound name reserved for app buildin"
                          ELSE "Sound already imported"]_vars

\* C7 witness: loop.wav from Downloads was refused as already imported; the
\* user sounds keep the loop.wav that came from Music.
C7_Witness ==
    /\ screen = "add"
    /\ sound_type = "alarm"
    /\ notice = "Sound already imported"
    /\ "loop.wav" \in glob("user_sounds")
    /\ fs["user_sounds"]["loop.wav"] = "A"

C9_ClaimedPath(name) ==
    IF name \in glob("sounds") THEN "sounds"
    ELSE IF name \in glob("user_sounds") THEN "user_sounds"
    ELSE IF name \in glob("ambiences") THEN "ambiences"
    ELSE IF name \in glob("user_ambiences") THEN "user_ambiences"
    ELSE ""

\* C9: a preview plays the name from the first directory that holds it, in
\* the order built-in sounds, user sounds, built-in ambiences, user
\* ambiences; a name in none of them is a not-found error and plays nothing.
C9_PreviewOrder ==
    [][\A v \in FileNames :
          listen_to_sound(v) =>
              IF C9_ClaimedPath(v) = ""
              THEN notice' = "FileNotFoundError" /\ playing' = playing
              ELSE playing' = {[path |-> C9_ClaimedPath(v), name |-> v]}]_vars

\* C10: import, rename and remove never change the built-in directories:
\* a handler changes at most the user directory of the pool its dialog is for.
C10_BuiltInsReadOnly ==
    /\ [](fs["sounds"] = InitialFs["sounds"]
            /\ fs["ambiences"] = InitialFs["ambiences"])
    /\ [][\A d \in DirIds :
             fs'[d] # fs[d] =>
                 d = (IF sound_type = "ambient" THEN "user_ambiences"
                                                ELSE "user_sounds")]_vars

\* C10 witness: both user directories hold imports, the ambient one renamed
\* to gong.wav, the sound one imported a second time after a rename.
C10_Witness ==
    /\ screen = "edit"
    /\ "gong.wav" \in glob("user_ambiences")
    /\ glob("user_sounds") = {"bell.wav", "loop.wav"}
    /\ fs["sounds"] = InitialFs["sounds"]
    /\ fs["ambiences"] = InitialFs["ambiences"]

C12_MissingFileRenameChangesNothing ==
    [][\A s \in Stems : \A v \in TypedNames :
          /\ pressed' # ""
          /\ rename_pressed(s, v) \/ remove_pressed(s, v)
          /\ OldName(s) \notin glob(path_to_sounds)
          => /\ notice' = "FileNotFoundError"
             /\ fs' = fs
             /\ sounds_names' = sounds_names
             /\ config' = config]_vars

\* C12 witness: the rename of loop, to which alarm is bound, has just failed
\* as not found: the dialog still lists loop, its directory holds another
\* file only.
C12_Witness ==
    /\ screen = "edit"
    /\ pressed = "rename"
    /\ notice = "FileNotFoundError"
    /\ path_to_sounds = "user_sounds"
    /\ "loop" \in DOMAIN sounds_names
    /\ config["alarm"] = [name |-> "loop.wav", path |-> "user_sounds"]
    /\ glob("user_sounds") = {"gong.wav"}

====
